---- MODULE Spec2Model ----
(***************************************************************************)
(* One accepted transport connection of the speech assistant server: the   *)
(* browser microphone handler (handlers/mic_handler.py) or the telephony   *)
(* handler (handlers/twilio_handler.py), the upstream realtime client      *)
(* (clients/openai_realtime.py) and the two pumps that asyncio.gather runs *)
(* concurrently.  A pump's step runs from one await to the next; the two   *)
(* pumps interleave only at awaits.  An await whose continuation does      *)
(* nothing but fetch the next event or frame is not a position of its own; *)
(* the await of the upstream close, in close() and in __aexit__, is one.   *)
(* An exception that leaves the inbound pump reaches gather and the        *)
(* handler; the outbound pump catches every exception and ends.  The       *)
(* variables from nEvents on record the history the claims speak of; the   *)
(* two counters bound the run, and nothing else of the program reads them. *)
(***************************************************************************)
EXTENDS Integers, Sequences, FiniteSets, TLC

VARIABLES
    handler,                         \* "mic" (/mic-stream) or "twilio" (/media-stream)
    hPc,                             \* position of the connection handler
    ws,                              \* OpenAIRealtimeClient._ws: "NONE", "OPEN", "CLOSED"
    transport,                       \* the client's websocket: "CONNECTED", "DISCONNECTED"
    inPc,                            \* inbound pump (receive_from_client / receive_from_twilio)
    outPc,                           \* outbound pump (send_to_client / send_to_twilio)
    last_assistant_item,             \* state.last_assistant_item (both handlers)
    response_start_timestamp,        \* MicStreamState.response_start_timestamp
    total_bytes_sent,                \* MicStreamState.total_bytes_sent
    is_responding,                   \* MicStreamState.is_responding
    audio_end_ms,                    \* local of send_to_client, live across its awaits
    stream_sid,                      \* TwilioStreamState.stream_sid
    latest_media_timestamp,          \* TwilioStreamState.latest_media_timestamp
    mark_queue,                      \* TwilioStreamState.mark_queue
    response_start_timestamp_twilio, \* TwilioStreamState.response_start_timestamp_twilio
    qdrant_client,                   \* OpenAIRealtimeClient.qdrant_client is set
    nEvents,                         \* upstream events handed to the outbound pump
    nFrames,                         \* transport frames handed to the inbound pump
    curEv,                           \* the upstream event being handled (or handled last)
    evUp,                            \* truncates written upstream while handling curEv
    evOut,                           \* frames written to the transport while handling curEv
    evNewTurn,                       \* did curEv start a new turn: "pending", "yes", "no"
    evClock,                         \* latest_media_timestamp when curEv, a speech_started, was taken
    evItem,                          \* last_assistant_item when curEv, a speech_started, was taken
    armed,                           \* a truncating speech_started precedes curEv, no delta between
    runId,                           \* item id of the current run of audio deltas
    runBefore,                       \* runId before curEv
    anchorItem,                      \* item id of the turn started last (telephony)
    anchorClock,                     \* transport clock when that turn started
    doneSeen,                        \* response.done handled since the last new turn
    inUp,                            \* the last inbound frame was written upstream
    inEnd,                           \* how the inbound pump ended
    evCall,                          \* send_truncate calls made while handling curEv
    evYield,                         \* times iter_events has yielded curEv
    ragOutcome,                      \* outcome of the context lookup made for curEv
    ragUp,                           \* context messages written upstream for curEv
    turnBytes,                       \* decoded bytes of the deltas of the current run (mic)
    startSent,                       \* item of the response_start written for the turn (mic)
    curFrame,                        \* the inbound frame taken last, if media or unparseable
    owed,                            \* mark frames written and not yet acknowledged
    truncated                        \* items of the truncate messages written upstream

sessionVars == <<last_assistant_item, response_start_timestamp, total_bytes_sent,
                 is_responding, stream_sid, latest_media_timestamp, mark_queue,
                 response_start_timestamp_twilio>>
micVars == <<response_start_timestamp, total_bytes_sent, is_responding, audio_end_ms>>
twilioVars == <<stream_sid, latest_media_timestamp, mark_queue,
                response_start_timestamp_twilio>>
turnGhost == <<runId, runBefore, anchorItem, anchorClock, doneSeen>>
evGhost == <<nEvents, curEv, evUp, evOut, evNewTurn, evClock, evItem, armed>>
callGhost == <<evCall, evYield, ragOutcome, ragUp>>
micGhost == <<turnBytes, startSent>>
lifeGhost == <<owed, truncated>>
vars == <<handler, hPc, ws, transport, inPc, outPc, last_assistant_item, micVars,
          twilioVars, qdrant_client, evGhost, turnGhost, nFrames, inUp, inEnd,
          callGhost, micGhost, curFrame, lifeGhost>>

----------------------------------------------------------------------------
(* Bounds and input sets *)

\* Events taken from upstream, frames taken from the client, and both together.
MaxEvents == 4
MaxFrames == 3
MaxInputs == 5

BytesPerMs == 48

None == <<>>
Some(x) == <<x>>
NoItem == "none"
NoSid == "none"
ItemIds == {"a1", "b2"}
DeltaLens == {24}
Undecodable == -1
TranscriptLens == {0, 1}
Timestamps == {1000, 1450}
StreamSids == {"MZ1"}

Ev(t, i, n) == [type |-> t, item |-> i, len |-> n]
NoEvent == Ev("none", NoItem, 0)
DeltaEvents == {Ev("delta", i, n) : i \in ItemIds \cup {NoItem},
                                    n \in DeltaLens \cup {Undecodable}}
TranscriptEvents == {Ev("transcript", NoItem, n) : n \in TranscriptLens}
Events == DeltaEvents \cup TranscriptEvents
              \cup {Ev("speech_started", NoItem, 0), Ev("response.done", NoItem, 0),
                    Ev("other", NoItem, 0)}

Out(k, i, n) == [kind |-> k, item |-> i, n |-> n]
Frame(k, ts) == [kind |-> k, ts |-> ts]
NoFrame == Frame("none", 0)
BadFrames == {"invalid", "no_payload"}
NoTimestamp == 0
LookupOutcomes == {"context", "empty", "embed_failed", "search_failed", "send_failed"}
Truncate(i, ms) == [item |-> i, ms |-> ms]

----------------------------------------------------------------------------
(* Pure parts of the handlers and of the upstream client *)

is_open == ws = "OPEN"

\* Mutant: every delta that carries an item id starts a turn.
IsNewTurn_EveryDelta(item_id, last) == item_id /= NoItem

\* Mutant: no delta starts a turn.
IsNewTurn_Never(item_id, last) == FALSE

IsNewTurn(item_id, last) == item_id /= NoItem /\ item_id /= last

\* Mutant of the interruption guard: the guard lost.
MicShouldInterrupt_Always(last, responding) == TRUE

MicShouldInterrupt(last, responding) == last /= NoItem /\ responding

\* Mutant: the elapsed time rounded to the nearest millisecond.
AudioEndMs_Rounded(bytes) == (bytes + BytesPerMs \div 2) \div BytesPerMs

AudioEndMs(bytes) == bytes \div BytesPerMs

\* Mutant: the pending markers are not looked at.
TwilioShouldInterrupt_IgnoresMarks(last, queue, start) ==
    last /= NoItem /\ start /= None

TwilioShouldInterrupt(last, queue, start) ==
    last /= NoItem /\ queue /= <<>> /\ start /= None

\* Mutant: the anchor is not subtracted.
ElapsedTime_NoAnchor(latest, start) == latest

ElapsedTime(latest, start) == latest - start[1]

\* Mutant: reset() leaves the turn in flight.
MicReset_KeepsTurn ==
    [last_assistant_item |-> last_assistant_item, response_start_timestamp |-> None,
     total_bytes_sent |-> 0, is_responding |-> is_responding]

MicReset ==
    [last_assistant_item |-> NoItem, response_start_timestamp |-> None,
     total_bytes_sent |-> 0, is_responding |-> FALSE]

\* Mutant: the marker queue is not cleared.
TwilioReset_KeepsMarks ==
    [mark_queue |-> mark_queue, last_assistant_item |-> NoItem,
     response_start_timestamp_twilio |-> None]

TwilioReset ==
    [mark_queue |-> <<>>, last_assistant_item |-> NoItem,
     response_start_timestamp_twilio |-> None]

\* Mutant: send_truncate called by neither handler.
TruncateCall_Skipped(item_id, ms) == <<>>

\* The handler's call of openai_client.send_truncate(item_id, audio_end_ms).
TruncateCall(item_id, ms) == <<Truncate(item_id, ms)>>

\* Mutant: send_truncate without its liveness guard.
SentTruncate_Unguarded(item_id, ms) == <<Truncate(item_id, ms)>>

\* What send_truncate writes to the upstream connection.
SentTruncate(item_id, ms) == IF is_open THEN <<Truncate(item_id, ms)>> ELSE <<>>

\* What send_audio writes: the handlers call it for an audio frame while is_open.
SentAudio(isAudio) == isAudio /\ is_open

\* base64.b64decode(event['delta']) raises on a payload it cannot decode.
Decodes(e) == e.len /= Undecodable

\* iter_events looks the context up for a transcription-completed event with a
\* non-empty transcript; _inject_rag_context returns at once without a lookup
\* client or an open connection.
NeedsLookup(e) == e.type = "transcript" /\ e.len > 0 /\ qdrant_client /\ is_open

\* Mutant: the context message is sent whatever the lookup gave.
ContextToSend_Unchecked(outcome) == <<"context">>

\* get_relevant_context gives "" when the embedding or the search fails or finds
\* nothing; the context message is built only from a non-empty context.
ContextToSend(outcome) ==
    IF outcome \in {"context", "send_failed"} THEN <<"context">> ELSE <<>>

----------------------------------------------------------------------------
Init ==
    /\ handler \in {"mic", "twilio"}
    /\ hPc = "accepted"
    /\ ws = "NONE"
    /\ transport = "CONNECTED"
    /\ inPc = "off"
    /\ outPc = "off"
    /\ last_assistant_item = NoItem
    /\ response_start_timestamp = None
    /\ total_bytes_sent = 0
    /\ is_responding = FALSE
    /\ audio_end_ms = 0
    /\ stream_sid = NoSid
    /\ latest_media_timestamp = 0
    /\ mark_queue = <<>>
    /\ response_start_timestamp_twilio = None
    /\ qdrant_client \in (IF handler = "mic" THEN BOOLEAN ELSE {FALSE})
    /\ nEvents = 0
    /\ nFrames = 0
    /\ curEv = NoEvent
    /\ evUp = <<>>
    /\ evOut = <<>>
    /\ evNewTurn = "no"
    /\ evClock = 0
    /\ evItem = NoItem
    /\ armed = FALSE
    /\ runId = NoItem
    /\ runBefore = NoItem
    /\ anchorItem = NoItem
    /\ anchorClock = 0
    /\ doneSeen = FALSE
    /\ inUp = FALSE
    /\ inEnd = "running"
    /\ evCall = <<>>
    /\ evYield = 0
    /\ ragOutcome = "none"
    /\ ragUp = <<>>
    /\ turnBytes = 0
    /\ startSent = NoItem
    /\ curFrame = NoFrame
    /\ owed = 0
    /\ truncated = {}

----------------------------------------------------------------------------
(* The connection handler: async with OpenAIRealtimeClient(...), gather *)

\* Mutant: the pumps are started although the connection was not made.
Connect_StartsPumpsAnyway(ok) ==
    /\ hPc = "accepted"
    /\ ws' = IF ok THEN "OPEN" ELSE ws
    /\ hPc' = "running"
    /\ inPc' = "wait"
    /\ outPc' = "wait"
    /\ UNCHANGED <<lifeGhost, handler, qdrant_client, transport, last_assistant_item, micVars,
                   twilioVars, evGhost, turnGhost, nFrames, inUp, inEnd, callGhost,
                   micGhost, curFrame>>

Connect(ok) ==
    /\ hPc = "accepted"
    /\ IF ok
       THEN /\ ws' = "OPEN"
            /\ hPc' = "running"
            /\ inPc' = "wait"
            /\ outPc' = "wait"
       ELSE /\ hPc' = "raised"
            /\ UNCHANGED <<ws, inPc, outPc>>
    /\ UNCHANGED <<lifeGhost, handler, qdrant_client, transport, last_assistant_item, micVars, twilioVars,
                   evGhost, turnGhost, nFrames, inUp, inEnd>>
    /\ UNCHANGED <<callGhost, micGhost, curFrame>>

\* The connection is made and is lost before session.update is sent: the send
\* raises in __aenter__, so the body of the async with block does not run (and
\* __aexit__ is not called).
ConnectLost ==
    /\ hPc = "accepted"
    /\ ws' = "CLOSED"
    /\ hPc' = "raised"
    /\ UNCHANGED <<lifeGhost, handler, qdrant_client, transport, inPc, outPc, last_assistant_item,
                   micVars, twilioVars, evGhost, turnGhost, nFrames, inUp, inEnd,
                   callGhost, micGhost, curFrame>>

\* Mutant: leaving the async with block does not close the connection.
AExit_LeavesOpen == ws

\* __aexit__: the connection after the async with block is left.
AExit == IF is_open THEN "CLOSED" ELSE ws

\* gather returns when both pumps have ended; __aexit__ then closes a connection
\* that is open and waits in that close, and returns at once otherwise.
HandlerReturn ==
    /\ hPc = "running"
    /\ inPc = "done"
    /\ inEnd /= "error"
    /\ outPc = "done"
    /\ hPc' = IF is_open THEN "exit_return" ELSE "returned"
    /\ ws' = AExit
    /\ UNCHANGED <<lifeGhost, handler, qdrant_client, transport, inPc, outPc, last_assistant_item, micVars,
                   twilioVars, evGhost, turnGhost, nFrames, inUp, inEnd>>
    /\ UNCHANGED <<callGhost, micGhost, curFrame>>

\* gather hands the first exception of a pump to the handler at once and leaves
\* the other pump running; __aexit__ closes a connection that is open and waits
\* in that close, and lets the exception out at once otherwise.  When the
\* exception leaves the handler the server tears the transport down, now or
\* later.
HandlerRaise(torn) ==
    /\ hPc = "running"
    /\ inPc = "done"
    /\ inEnd = "error"
    /\ hPc' = IF is_open THEN "exit_raise" ELSE "raised"
    /\ ws' = AExit
    /\ transport' = IF torn /\ ~is_open THEN "DISCONNECTED" ELSE transport
    /\ UNCHANGED <<lifeGhost, handler, qdrant_client, inPc, outPc, last_assistant_item, micVars,
                   twilioVars, evGhost, turnGhost, nFrames, inUp, inEnd, callGhost,
                   micGhost, curFrame>>

\* The close awaited in __aexit__ has returned: the handler ends.
HandlerAfterClose(torn) ==
    /\ hPc \in {"exit_return", "exit_raise"}
    /\ hPc' = IF hPc = "exit_return" THEN "returned" ELSE "raised"
    /\ transport' = IF torn /\ hPc = "exit_raise" THEN "DISCONNECTED" ELSE transport
    /\ UNCHANGED <<lifeGhost, handler, qdrant_client, ws, inPc, outPc, last_assistant_item,
                   micVars, twilioVars, evGhost, turnGhost, nFrames, inUp, inEnd,
                   callGhost, micGhost, curFrame>>

----------------------------------------------------------------------------
(* The environment: the client hangs up, the upstream server closes *)

ClientDisconnect ==
    /\ hPc \in {"running", "exit_return", "exit_raise"}
    /\ transport = "CONNECTED"
    /\ transport' = "DISCONNECTED"
    /\ UNCHANGED <<lifeGhost, handler, qdrant_client, hPc, ws, inPc, outPc, last_assistant_item, micVars,
                   twilioVars, evGhost, turnGhost, nFrames, inUp, inEnd>>
    /\ UNCHANGED <<callGhost, micGhost, curFrame>>

UpstreamClose ==
    /\ hPc = "running"
    /\ is_open
    /\ ws' = "CLOSED"
    /\ UNCHANGED <<lifeGhost, handler, qdrant_client, hPc, transport, inPc, outPc, last_assistant_item, micVars,
                   twilioVars, evGhost, turnGhost, nFrames, inUp, inEnd>>
    /\ UNCHANGED <<callGhost, micGhost, curFrame>>

----------------------------------------------------------------------------
(* The outbound pump: async for event in openai_client.iter_events() *)

\* An event is handed over while the connection is open, or, once it is closed,
\* while messages received before the close are still buffered.
CanReceive ==
    /\ outPc = "wait"
    /\ ws \in {"OPEN", "CLOSED"}
    /\ nEvents < MaxEvents /\ nEvents + nFrames < MaxInputs

CanWrite == transport = "CONNECTED"

BeginEvent(e) ==
    /\ nEvents' = nEvents + 1
    /\ curEv' = e
    /\ evClock' = IF e.type = "speech_started" THEN latest_media_timestamp ELSE 0
    /\ evItem' = IF e.type = "speech_started" THEN last_assistant_item ELSE NoItem
    /\ armed' = (/\ e.type /= "delta"
                 /\ \/ curEv.type = "speech_started" /\ evUp /= <<>>
                    \/ armed /\ curEv.type /= "delta")
    /\ evYield' = IF NeedsLookup(e) THEN 0 ELSE 1
    /\ ragOutcome' = IF NeedsLookup(e) THEN "pending" ELSE "none"
    /\ ragUp' = <<>>

OutboundEnd ==
    /\ outPc = "wait"
    /\ ws = "CLOSED"
    /\ outPc' = "done"
    /\ UNCHANGED <<lifeGhost, handler, qdrant_client, hPc, ws, transport, inPc, last_assistant_item, micVars,
                   twilioVars, evGhost, turnGhost, nFrames, inUp, inEnd>>
    /\ UNCHANGED <<callGhost, micGhost, curFrame>>

----------------------------------------------------------------------------
(* Microphone handler, outbound pump: send_to_client *)

\* response.output_audio.delta up to the first await: the new-turn bookkeeping and
\* the response_start message, or (same turn) the byte count and the audio message.
\* A write to a disconnected browser raises; the pump's except ends the pump.
\* The audio message of a delta: event['delta'] is forwarded as received, with the
\* event's item id.
AudioMessage(e) == Out("audio", e.item, e.len)

MicAudioDelta(e) ==
    /\ handler = "mic"
    /\ CanReceive
    /\ e.type = "delta"
    /\ BeginEvent(e)
    /\ evUp' = <<>>
    /\ evCall' = <<>>
    /\ runBefore' = runId
    /\ runId' = IF e.item /= NoItem THEN e.item ELSE runId
    /\ turnBytes' = (IF e.item /= NoItem /\ e.item /= runId THEN 0 ELSE turnBytes)
                        + (IF Decodes(e) THEN e.len ELSE 0)
    /\ IF IsNewTurn(e.item, last_assistant_item)
       THEN /\ last_assistant_item' = e.item
            /\ total_bytes_sent' = 0
            /\ is_responding' = TRUE
            /\ evNewTurn' = "yes"
            /\ doneSeen' = FALSE
            /\ IF CanWrite
               THEN /\ evOut' = <<Out("response_start", e.item, 0)>>
                    /\ outPc' = "m_start"
                    /\ startSent' = e.item
               ELSE /\ evOut' = <<>>
                    /\ outPc' = "done"
                    /\ startSent' = startSent
       ELSE /\ evNewTurn' = "no"
            /\ IF Decodes(e)
               THEN /\ total_bytes_sent' = total_bytes_sent + e.len
                    /\ IF CanWrite
                       THEN evOut' = <<AudioMessage(e)>> /\ outPc' = "wait"
                       ELSE evOut' = <<>> /\ outPc' = "done"
               ELSE /\ total_bytes_sent' = total_bytes_sent
                    /\ evOut' = <<>>
                    /\ outPc' = "done"
            /\ UNCHANGED <<last_assistant_item, is_responding, doneSeen, startSent>>
    /\ UNCHANGED <<lifeGhost, handler, qdrant_client, hPc, ws, transport, inPc,
                   response_start_timestamp, audio_end_ms, twilioVars, anchorItem,
                   anchorClock, nFrames, inUp, inEnd, curFrame>>

\* After the response_start write: decode the delta and count its bytes, write the
\* audio.  A payload that does not decode raises before either.
MicAfterStart ==
    /\ outPc = "m_start"
    /\ IF Decodes(curEv)
       THEN /\ total_bytes_sent' = total_bytes_sent + curEv.len
            /\ IF CanWrite
               THEN /\ evOut' = Append(evOut, AudioMessage(curEv))
                    /\ outPc' = "wait"
               ELSE evOut' = evOut /\ outPc' = "done"
       ELSE /\ total_bytes_sent' = total_bytes_sent
            /\ evOut' = evOut
            /\ outPc' = "done"
    /\ UNCHANGED <<lifeGhost, handler, qdrant_client, hPc, ws, transport, inPc, last_assistant_item,
                   response_start_timestamp, is_responding, audio_end_ms, twilioVars,
                   nEvents, curEv, evUp, evNewTurn, evClock, evItem, armed, turnGhost,
                   nFrames, inUp, inEnd, callGhost, micGhost, curFrame>>

\* input_audio_buffer.speech_started up to the await of send_truncate.
MicSpeechStarted(e) ==
    /\ handler = "mic"
    /\ CanReceive
    /\ e.type = "speech_started"
    /\ BeginEvent(e)
    /\ evNewTurn' = "no"
    /\ IF MicShouldInterrupt(last_assistant_item, is_responding)
       THEN /\ audio_end_ms' = AudioEndMs(total_bytes_sent)
            /\ evCall' = TruncateCall(last_assistant_item, AudioEndMs(total_bytes_sent))
            /\ evUp' = SentTruncate(last_assistant_item, AudioEndMs(total_bytes_sent))
            /\ IF is_open
               THEN evOut' = <<>> /\ outPc' = "m_trunc"
               ELSE IF CanWrite
                    THEN /\ evOut' = <<Out("stop_audio", NoItem,
                                          AudioEndMs(total_bytes_sent))>>
                         /\ outPc' = "m_stop"
                    ELSE evOut' = <<>> /\ outPc' = "done"
       ELSE /\ evCall' = <<>>
            /\ evUp' = <<>>
            /\ evOut' = <<>>
            /\ UNCHANGED <<audio_end_ms, outPc>>
    /\ truncated' = truncated \cup {evUp'[i].item : i \in 1..Len(evUp')}
    /\ UNCHANGED <<owed, handler, qdrant_client, hPc, ws, transport, inPc, last_assistant_item,
                   response_start_timestamp, total_bytes_sent, is_responding,
                   twilioVars, turnGhost, nFrames, inUp, inEnd, micGhost, curFrame>>

\* After send_truncate: the stop_audio message.
MicAfterTruncate ==
    /\ outPc = "m_trunc"
    /\ IF CanWrite
       THEN evOut' = Append(evOut, Out("stop_audio", NoItem, audio_end_ms)) /\ outPc' = "m_stop"
       ELSE evOut' = evOut /\ outPc' = "done"
    /\ UNCHANGED <<lifeGhost, handler, qdrant_client, hPc, ws, transport, inPc, last_assistant_item, micVars,
                   twilioVars, nEvents, curEv, evUp, evNewTurn, evClock, evItem, armed,
                   turnGhost, nFrames, inUp, inEnd>>
    /\ UNCHANGED <<callGhost, micGhost, curFrame>>

\* After the stop_audio write: state.reset().
MicAfterStop ==
    /\ outPc = "m_stop"
    /\ last_assistant_item' = MicReset.last_assistant_item
    /\ response_start_timestamp' = MicReset.response_start_timestamp
    /\ total_bytes_sent' = MicReset.total_bytes_sent
    /\ is_responding' = MicReset.is_responding
    /\ outPc' = "wait"
    /\ runId' = NoItem
    /\ UNCHANGED <<lifeGhost, handler, qdrant_client, hPc, ws, transport, inPc, audio_end_ms, twilioVars, evGhost,
                   runBefore, anchorItem, anchorClock, doneSeen, nFrames, inUp, inEnd>>
    /\ startSent' = NoItem
    /\ UNCHANGED <<callGhost, turnBytes, curFrame>>

\* response.done
MicResponseDone(e) ==
    /\ handler = "mic"
    /\ CanReceive
    /\ e.type = "response.done"
    /\ BeginEvent(e)
    /\ evUp' = <<>>
    /\ evOut' = <<>>
    /\ evNewTurn' = "no"
    /\ is_responding' = FALSE
    /\ doneSeen' = TRUE
    /\ UNCHANGED <<lifeGhost, handler, qdrant_client, hPc, ws, transport, inPc, outPc, last_assistant_item,
                   response_start_timestamp, total_bytes_sent, audio_end_ms, twilioVars,
                   runId, runBefore, anchorItem, anchorClock, nFrames, inUp, inEnd>>
    /\ evCall' = <<>>
    /\ UNCHANGED <<micGhost, curFrame>>

\* Any other event type (an audio delta without a 'delta' key included).
MicOtherEvent(e) ==
    /\ handler = "mic"
    /\ CanReceive
    /\ e.type = "other" \/ (e.type = "transcript" /\ ~NeedsLookup(e))
    /\ BeginEvent(e)
    /\ evUp' = <<>>
    /\ evOut' = <<>>
    /\ evNewTurn' = "no"
    /\ evCall' = <<>>
    /\ UNCHANGED <<lifeGhost, handler, qdrant_client, hPc, ws, transport, inPc, outPc,
                   last_assistant_item, micVars, twilioVars, turnGhost, nFrames, inUp,
                   inEnd, micGhost, curFrame>>

\* A transcription-completed event with a transcript, in iter_events: up to the
\* await of the context lookup.  The event is not yet yielded.
MicTranscript(e) ==
    /\ handler = "mic"
    /\ CanReceive
    /\ NeedsLookup(e)
    /\ BeginEvent(e)
    /\ evUp' = <<>>
    /\ evOut' = <<>>
    /\ evNewTurn' = "no"
    /\ evCall' = <<>>
    /\ outPc' = "rag_lookup"
    /\ UNCHANGED <<lifeGhost, handler, qdrant_client, hPc, ws, transport, inPc, last_assistant_item,
                   micVars, twilioVars, turnGhost, nFrames, inUp, inEnd, micGhost,
                   curFrame>>

\* After the lookup: the context message is written when there is a context, and
\* the pump waits in that send; a send that raises (the connection went away
\* meanwhile) is caught in _inject_rag_context.  Without a message to send
\* iter_events yields the event at once; no branch of send_to_client takes it.
RagAfterLookup(outcome) ==
    /\ outPc = "rag_lookup"
    /\ ragOutcome' = outcome
    /\ ragUp' = IF is_open /\ outcome /= "send_failed" THEN ContextToSend(outcome) ELSE <<>>
    /\ ws' = IF is_open /\ outcome = "send_failed" THEN "CLOSED" ELSE ws
    /\ IF ragUp' /= <<>>
       THEN evYield' = evYield /\ outPc' = "rag_send"
       ELSE evYield' = evYield + 1 /\ outPc' = "wait"
    /\ UNCHANGED <<lifeGhost, handler, qdrant_client, hPc, transport, inPc, last_assistant_item,
                   micVars, twilioVars, evGhost, turnGhost, nFrames, inUp, inEnd, evCall,
                   micGhost, curFrame>>

\* After the send of the context message: iter_events yields the event.
RagAfterSend ==
    /\ outPc = "rag_send"
    /\ evYield' = evYield + 1
    /\ outPc' = "wait"
    /\ UNCHANGED <<lifeGhost, handler, qdrant_client, hPc, ws, transport, inPc, last_assistant_item,
                   micVars, twilioVars, evGhost, turnGhost, nFrames, inUp, inEnd, evCall,
                   ragOutcome, ragUp, micGhost, curFrame>>

(* Microphone handler, inbound pump: receive_from_client *)

\* One browser message: an audio message is forwarded while the upstream is open.
MicFrame(kind) ==
    /\ handler = "mic"
    /\ inPc = "wait"
    /\ transport = "CONNECTED"
    /\ nFrames < MaxFrames /\ nEvents + nFrames < MaxInputs
    /\ nFrames' = nFrames + 1
    /\ inUp' = SentAudio(kind = "audio")
    /\ curFrame' = NoFrame
    /\ UNCHANGED <<lifeGhost, handler, qdrant_client, hPc, ws, transport, inPc, outPc,
                   last_assistant_item, micVars, twilioVars, evGhost, turnGhost, inEnd,
                   callGhost, micGhost>>

----------------------------------------------------------------------------
(* Telephony handler, outbound pump: TwilioStreamState.handle_openai_event *)

\* Mutant: the media frame carries an empty payload.
MediaMessage_Empty(sid, e) == Out("media", sid, 0)

\* The media frame of a delta: the payload is decoded and encoded again, so the
\* frame carries the bytes the delta decodes to.
MediaMessage(sid, e) == Out("media", sid, e.len)

\* response.output_audio.delta up to the await of the media write.  The payload
\* is decoded and encoded again first: one that does not decode raises there.
TwilioAudioDelta(e) ==
    /\ handler = "twilio"
    /\ CanReceive
    /\ e.type = "delta"
    /\ BeginEvent(e)
    /\ evUp' = <<>>
    /\ evCall' = <<>>
    /\ evNewTurn' = "pending"
    /\ IF Decodes(e) /\ CanWrite
       THEN evOut' = <<MediaMessage(stream_sid, e)>> /\ outPc' = "t_media"
       ELSE evOut' = <<>> /\ outPc' = "done"
    /\ UNCHANGED <<lifeGhost, handler, qdrant_client, hPc, ws, transport, inPc, last_assistant_item,
                   micVars, twilioVars, turnGhost, nFrames, inUp, inEnd, micGhost,
                   curFrame>>

\* Mutant: a mark is sent whether or not the stream has started.
ShouldSendMark_Always(sid) == TRUE

\* _send_mark does nothing before the start frame has set the stream id.
ShouldSendMark(sid) == sid /= NoSid

\* After the media write: anchor a new turn, then _send_mark up to its await.
TwilioAfterMedia ==
    /\ outPc = "t_media"
    /\ runBefore' = runId
    /\ runId' = IF curEv.item /= NoItem THEN curEv.item ELSE runId
    /\ IF IsNewTurn(curEv.item, last_assistant_item)
       THEN /\ response_start_timestamp_twilio' = Some(latest_media_timestamp)
            /\ last_assistant_item' = curEv.item
            /\ evNewTurn' = "yes"
            /\ anchorItem' = curEv.item
            /\ anchorClock' = latest_media_timestamp
            /\ doneSeen' = FALSE
       ELSE /\ evNewTurn' = "no"
            /\ UNCHANGED <<response_start_timestamp_twilio, last_assistant_item,
                           anchorItem, anchorClock, doneSeen>>
    /\ IF ShouldSendMark(stream_sid)
       THEN IF CanWrite
            THEN evOut' = Append(evOut, Out("mark", stream_sid, 0)) /\ outPc' = "t_mark"
            ELSE evOut' = evOut /\ outPc' = "done"
       ELSE evOut' = evOut /\ outPc' = "wait"
    /\ owed' = IF outPc' = "t_mark" THEN owed + 1 ELSE owed
    /\ UNCHANGED <<truncated, handler, qdrant_client, hPc, ws, transport, inPc, micVars, stream_sid,
                   latest_media_timestamp, mark_queue, nEvents, curEv, evUp, evClock,
                   evItem, armed, nFrames, inUp, inEnd>>
    /\ UNCHANGED <<callGhost, micGhost, curFrame>>

\* After the mark write: the marker joins the queue.
TwilioAfterMark ==
    /\ outPc = "t_mark"
    /\ mark_queue' = Append(mark_queue, "responsePart")
    /\ outPc' = "wait"
    /\ UNCHANGED <<lifeGhost, handler, qdrant_client, hPc, ws, transport, inPc, last_assistant_item, micVars,
                   stream_sid, latest_media_timestamp, response_start_timestamp_twilio,
                   evGhost, turnGhost, nFrames, inUp, inEnd>>
    /\ UNCHANGED <<callGhost, micGhost, curFrame>>

\* input_audio_buffer.speech_started: _handle_interruption up to the await of
\* send_truncate.
TwilioSpeechStarted(e) ==
    /\ handler = "twilio"
    /\ CanReceive
    /\ e.type = "speech_started"
    /\ BeginEvent(e)
    /\ evNewTurn' = "no"
    /\ IF TwilioShouldInterrupt(last_assistant_item, mark_queue,
                                response_start_timestamp_twilio)
       THEN /\ evCall' = TruncateCall(last_assistant_item,
                             ElapsedTime(latest_media_timestamp,
                                         response_start_timestamp_twilio))
            /\ evUp' = SentTruncate(last_assistant_item,
                           ElapsedTime(latest_media_timestamp,
                                       response_start_timestamp_twilio))
            /\ IF is_open
               THEN evOut' = <<>> /\ outPc' = "t_trunc"
               ELSE IF CanWrite
                    THEN evOut' = <<Out("clear", stream_sid, 0)>> /\ outPc' = "t_clear"
                    ELSE evOut' = <<>> /\ outPc' = "done"
       ELSE /\ evCall' = <<>>
            /\ evUp' = <<>>
            /\ evOut' = <<>>
            /\ UNCHANGED outPc
    /\ truncated' = truncated \cup {evUp'[i].item : i \in 1..Len(evUp')}
    /\ UNCHANGED <<owed, handler, qdrant_client, hPc, ws, transport, inPc, last_assistant_item,
                   micVars, twilioVars, turnGhost, nFrames, inUp, inEnd, micGhost,
                   curFrame>>

\* After send_truncate: the clear frame.
TwilioAfterTruncate ==
    /\ outPc = "t_trunc"
    /\ IF CanWrite
       THEN evOut' = Append(evOut, Out("clear", stream_sid, 0)) /\ outPc' = "t_clear"
       ELSE evOut' = evOut /\ outPc' = "done"
    /\ UNCHANGED <<lifeGhost, handler, qdrant_client, hPc, ws, transport, inPc, last_assistant_item, micVars,
                   twilioVars, nEvents, curEv, evUp, evNewTurn, evClock, evItem, armed,
                   turnGhost, nFrames, inUp, inEnd>>
    /\ UNCHANGED <<callGhost, micGhost, curFrame>>

\* After the clear write: the queue, the item id and the anchor are reset.
TwilioAfterClear ==
    /\ outPc = "t_clear"
    /\ mark_queue' = TwilioReset.mark_queue
    /\ last_assistant_item' = TwilioReset.last_assistant_item
    /\ response_start_timestamp_twilio' = TwilioReset.response_start_timestamp_twilio
    /\ outPc' = "wait"
    /\ runId' = NoItem
    /\ UNCHANGED <<lifeGhost, handler, qdrant_client, hPc, ws, transport, inPc, micVars, stream_sid,
                   latest_media_timestamp, evGhost, runBefore, anchorItem, anchorClock,
                   doneSeen, nFrames, inUp, inEnd>>
    /\ UNCHANGED <<callGhost, micGhost, curFrame>>

\* Every other event type, response.done included: no branch of the handler takes it.
\* The telephony client has no lookup client, so a transcription-completed event
\* is one of these.
TwilioOtherEvent(e) ==
    /\ handler = "twilio"
    /\ CanReceive
    /\ e.type \in {"response.done", "other"}
    /\ BeginEvent(e)
    /\ evUp' = <<>>
    /\ evOut' = <<>>
    /\ evNewTurn' = "no"
    /\ doneSeen' = (doneSeen \/ e.type = "response.done")
    /\ UNCHANGED <<lifeGhost, handler, qdrant_client, hPc, ws, transport, inPc, outPc, last_assistant_item, micVars,
                   twilioVars, runId, runBefore, anchorItem, anchorClock, nFrames, inUp,
                   inEnd>>
    /\ evCall' = <<>>
    /\ UNCHANGED <<micGhost, curFrame>>

(* Telephony handler, inbound pump: TwilioStreamState.handle_twilio_message *)

CanTakeFrame ==
    /\ handler = "twilio"
    /\ inPc = "wait"
    /\ transport = "CONNECTED"
    /\ nFrames < MaxFrames /\ nEvents + nFrames < MaxInputs

\* A media frame: taken only while the upstream is open.
TwilioMedia(ts) ==
    /\ CanTakeFrame
    /\ nFrames' = nFrames + 1
    /\ latest_media_timestamp' = IF is_open THEN ts ELSE latest_media_timestamp
    /\ inUp' = SentAudio(TRUE)
    /\ curFrame' = Frame("media", ts)
    /\ UNCHANGED <<lifeGhost, handler, qdrant_client, hPc, ws, transport, inPc, outPc,
                   last_assistant_item, micVars, stream_sid, mark_queue,
                   response_start_timestamp_twilio, evGhost, turnGhost, inEnd, callGhost,
                   micGhost>>

\* A start frame.
TwilioStart(sid) ==
    /\ CanTakeFrame
    /\ nFrames' = nFrames + 1
    /\ stream_sid' = sid
    /\ response_start_timestamp_twilio' = None
    /\ latest_media_timestamp' = 0
    /\ last_assistant_item' = NoItem
    /\ inUp' = FALSE
    /\ runId' = NoItem
    /\ UNCHANGED <<lifeGhost, handler, qdrant_client, hPc, ws, transport, inPc, outPc, micVars, mark_queue, evGhost,
                   runBefore, anchorItem, anchorClock, doneSeen, inEnd>>
    /\ curFrame' = NoFrame
    /\ UNCHANGED <<callGhost, micGhost>>

\* Mutant: an acknowledgment empties the queue.
PopMark_ClearsAll(queue) == <<>>

\* 'if self.mark_queue: self.mark_queue.pop(0)'.
PopMark(queue) == IF queue /= <<>> THEN Tail(queue) ELSE queue

\* A mark frame: the transport acknowledges a mark frame it was sent, and the
\* acknowledgment pops the front marker, if any.
TwilioMark ==
    /\ CanTakeFrame
    /\ owed > 0
    /\ nFrames' = nFrames + 1
    /\ mark_queue' = PopMark(mark_queue)
    /\ owed' = owed - 1
    /\ inUp' = FALSE
    /\ UNCHANGED <<truncated, handler, qdrant_client, hPc, ws, transport, inPc, outPc, last_assistant_item, micVars,
                   stream_sid, latest_media_timestamp, response_start_timestamp_twilio,
                   evGhost, turnGhost, inEnd>>
    /\ curFrame' = NoFrame
    /\ UNCHANGED <<callGhost, micGhost>>

\* Any other frame (stop, connected, ...).
TwilioOtherFrame ==
    /\ CanTakeFrame
    /\ nFrames' = nFrames + 1
    /\ inUp' = FALSE
    /\ UNCHANGED <<lifeGhost, handler, qdrant_client, hPc, ws, transport, inPc, outPc, last_assistant_item, micVars,
                   twilioVars, evGhost, turnGhost, inEnd>>
    /\ curFrame' = NoFrame
    /\ UNCHANGED <<callGhost, micGhost>>

----------------------------------------------------------------------------
(* The end of the inbound stream, in both handlers *)

\* A frame that json.loads rejects or that lacks the 'event' key ("invalid")
\* raises in the pump; an audio/media frame without its payload fields
\* ("no_payload") raises where they are read, which is only while the upstream is
\* open.  The pumps catch WebSocketDisconnect alone: the exception ends the pump.
FrameRaises(kind) == kind = "invalid" \/ (kind = "no_payload" /\ is_open)

\* The clock a frame without payload leaves: the telephony handler reads the
\* timestamp of a media frame, when it has one, before it reads the payload.
ClockAfterBadFrame(kind, ts) ==
    IF handler = "twilio" /\ kind = "no_payload" /\ is_open /\ ts /= NoTimestamp
    THEN ts
    ELSE latest_media_timestamp

BadFrame(kind, ts) ==
    /\ inPc = "wait"
    /\ transport = "CONNECTED"
    /\ nFrames < MaxFrames /\ nEvents + nFrames < MaxInputs
    /\ ts /= NoTimestamp => (handler = "twilio" /\ kind = "no_payload")
    /\ nFrames' = nFrames + 1
    /\ inUp' = FALSE
    /\ curFrame' = Frame(kind, ts)
    /\ latest_media_timestamp' = ClockAfterBadFrame(kind, ts)
    /\ inPc' = IF FrameRaises(kind) THEN "done" ELSE "wait"
    /\ inEnd' = IF FrameRaises(kind) THEN "error" ELSE inEnd
    /\ UNCHANGED <<lifeGhost, handler, qdrant_client, hPc, ws, transport, outPc, last_assistant_item,
                   micVars, stream_sid, mark_queue, response_start_timestamp_twilio,
                   evGhost, turnGhost, callGhost, micGhost>>

\* The client has disconnected.  websocket.iter_text() either ends the iteration
\* (the pump returns and close() is not called) or lets WebSocketDisconnect reach
\* the pump's except clause, which closes the upstream connection: close() waits
\* in the close of a connection that is open and returns at once otherwise.
InboundEnd(raised) ==
    /\ inPc = "wait"
    /\ transport = "DISCONNECTED"
    /\ inPc' = IF raised /\ is_open THEN "closing" ELSE "done"
    /\ inEnd' = IF raised /\ is_open THEN inEnd ELSE "disconnect"
    /\ ws' = IF raised /\ is_open THEN "CLOSED" ELSE ws
    /\ UNCHANGED <<lifeGhost, handler, qdrant_client, hPc, transport, outPc, last_assistant_item, micVars,
                   twilioVars, evGhost, turnGhost, nFrames, inUp>>
    /\ UNCHANGED <<callGhost, micGhost, curFrame>>

\* The close awaited in the except clause has returned: the pump ends.
InboundAfterClose ==
    /\ inPc = "closing"
    /\ inPc' = "done"
    /\ inEnd' = "disconnect"
    /\ UNCHANGED <<lifeGhost, handler, qdrant_client, hPc, ws, transport, outPc,
                   last_assistant_item, micVars, twilioVars, evGhost, turnGhost, nFrames,
                   inUp, callGhost, micGhost, curFrame>>

----------------------------------------------------------------------------
Next ==
    \/ \E ok \in BOOLEAN : Connect(ok)
    \/ ConnectLost
    \/ HandlerReturn
    \/ \E torn \in BOOLEAN : HandlerRaise(torn)
    \/ \E torn \in BOOLEAN : HandlerAfterClose(torn)
    \/ ClientDisconnect
    \/ UpstreamClose
    \/ OutboundEnd
    \/ \E e \in Events : MicAudioDelta(e)
    \/ MicAfterStart
    \/ \E e \in Events : MicSpeechStarted(e)
    \/ MicAfterTruncate
    \/ MicAfterStop
    \/ \E e \in Events : MicResponseDone(e)
    \/ \E e \in Events : MicOtherEvent(e)
    \/ \E e \in Events : MicTranscript(e)
    \/ \E outcome \in LookupOutcomes : RagAfterLookup(outcome)
    \/ RagAfterSend
    \/ \E kind \in {"audio", "other"} : MicFrame(kind)
    \/ \E e \in Events : TwilioAudioDelta(e)
    \/ TwilioAfterMedia
    \/ TwilioAfterMark
    \/ \E e \in Events : TwilioSpeechStarted(e)
    \/ TwilioAfterTruncate
    \/ TwilioAfterClear
    \/ \E e \in Events : TwilioOtherEvent(e)
    \/ \E ts \in Timestamps : TwilioMedia(ts)
    \/ \E sid \in StreamSids : TwilioStart(sid)
    \/ TwilioMark
    \/ TwilioOtherFrame
    \/ \E kind \in BadFrames, ts \in Timestamps \cup {NoTimestamp} : BadFrame(kind, ts)
    \/ \E raised \in BOOLEAN : InboundEnd(raised)
    \/ InboundAfterClose

Spec == Init /\ [][Next]_vars

----------------------------------------------------------------------------
(* Claims *)

\* The handling of curEv ran to its end (no write raised on the way).
EventCompleted == outPc \in {"wait", "done"} /\ evOut /= <<>>

\* C1: in both handlers, a speech_started event that follows a truncating
\* speech_started event with no audio delta in between sends no truncate and
\* writes nothing (no stop_audio, no clear) to the transport.
C1_SecondSpeechStartedIsNoOp ==
    (curEv.type = "speech_started" /\ armed) => (evUp = <<>> /\ evOut = <<>>)

C1_Witness ==
    /\ handler = "twilio"
    /\ curEv.type = "speech_started"
    /\ armed
    /\ outPc = "wait"

\* C2: the elapsed milliseconds of every truncate written upstream are >= 0.
C2_ElapsedNonNegative == \A i \in 1..Len(evUp) : evUp[i].ms >= 0

\* C3: once the handling of a speech_started event that sent a truncate has
\* completed, the item id is None, the accumulator is at its zero/unset value,
\* the responding flag is false and the marker queue is empty, all at once.
C3_ResetComplete ==
    (curEv.type = "speech_started" /\ evUp /= <<>> /\ EventCompleted)
        => /\ last_assistant_item = NoItem
           /\ is_responding = FALSE
           /\ mark_queue = <<>>
           /\ handler = "mic" => total_bytes_sent = 0
           /\ handler = "twilio" => response_start_timestamp_twilio = None

C3_Witness ==
    /\ handler = "twilio"
    /\ curEv.type = "speech_started"
    /\ evUp /= <<>>
    /\ EventCompleted
    /\ Len(evOut) = 1 /\ evOut[1].kind = "clear"

\* C4: in every reachable state of a microphone session, last_assistant_item is
\* None if and only if is_responding is false and total_bytes_sent is 0.
C4_ItemNoneIffIdle ==
    handler = "mic" =>
        ((last_assistant_item = NoItem) <=> (~is_responding /\ total_bytes_sent = 0))

\* C5: over a run of audio deltas (the deltas since the tracking was last reset
\* by a truncation or a stream start), a delta that carries an item id starts a
\* new turn exactly when its id differs from the id of the delta before it, so
\* each maximal run of equal ids has exactly one new-turn transition, its first
\* delta; and the tracked item id changes to another id only in the handling of
\* an audio delta whose item id differs from the tracked one, and becomes that id.
C5_TrackedIdChange ==
    (last_assistant_item' /= last_assistant_item /\ last_assistant_item' /= NoItem)
        => /\ curEv'.type = "delta"
           /\ curEv'.item /= last_assistant_item
           /\ last_assistant_item' = curEv'.item

C5_NewTurnAtRunStart ==
    (curEv.type = "delta" /\ evNewTurn /= "pending")
        => ((evNewTurn = "yes") <=> (curEv.item /= NoItem /\ curEv.item /= runBefore))

C5_OneNewTurnPerRun == []C5_NewTurnAtRunStart /\ [][C5_TrackedIdChange]_vars

C5_Witness ==
    /\ curEv.type = "delta"
    /\ curEv.item = "a1"
    /\ runBefore = "a1"
    /\ evNewTurn = "no"
    /\ last_assistant_item = "a1"
    /\ nEvents >= 3

\* C6: once the inbound stream has ended on a client disconnect, the upstream
\* connection is no longer open (the relay has closed it).
C6_DisconnectClosesUpstream ==
    (inPc = "done" /\ inEnd = "disconnect") => ws /= "OPEN"

\* C7: when the outbound pump has finished while the transport is still
\* connected, the handler does not keep waiting for the inbound pump: it can
\* return at once.
C7_ReturnsWhenUpstreamEnds ==
    (hPc = "running" /\ outPc = "done" /\ transport = "CONNECTED")
        => ENABLED HandlerReturn

\* C8: in both handlers, a speech_started event handled after the
\* response.done of the turn in flight, with no new-turn delta since, sends no
\* truncate and writes nothing to the transport.
C8_NoOpAfterResponseDone ==
    (curEv.type = "speech_started" /\ doneSeen) => (evUp = <<>> /\ evOut = <<>>)

\* C9: a speech_started event taken while no item is in flight sends no
\* truncate, writes nothing to the transport and changes no session field.
C9_NoOpStep ==
    (/\ nEvents' = nEvents + 1
     /\ curEv'.type = "speech_started"
     /\ last_assistant_item = NoItem)
        => /\ evUp' = <<>>
           /\ evOut' = <<>>
           /\ outPc' = outPc
           /\ UNCHANGED <<sessionVars, audio_end_ms>>

C9_SpeechStartedIdleIsNoOp == [][C9_NoOpStep]_vars

C9_Witness ==
    /\ curEv.type = "speech_started"
    /\ evItem = NoItem
    /\ armed
    /\ outPc = "wait"

\* C10: in the telephony handler, a truncate sent for a turn of item X that was
\* anchored at clock s, when the clock stands at c >= s, carries X and c - s.
C10_ClockElapsed ==
    (handler = "twilio" /\ evUp /= <<>> /\ evClock >= anchorClock)
        => evUp = <<Truncate(anchorItem, evClock - anchorClock)>>

C10_Witness ==
    /\ handler = "twilio"
    /\ anchorClock = 1000
    /\ evClock = 1450
    /\ evUp = <<Truncate("a1", 450)>>

\* C11: in the microphone handler the elapsed ms of a truncate is floor(B / 48),
\* B the decoded bytes of the audio deltas handled since the turn of the item in
\* flight started, the first delta of the turn included (a delta without an item
\* id counts for the turn in flight); for B = 48 * k the value is exactly k.
C11_TruncateIsFloorOfBytes ==
    (handler = "mic" /\ evCall /= <<>>)
        => /\ evCall[1].item = evItem
           /\ BytesPerMs * evCall[1].ms <= turnBytes
           /\ turnBytes < BytesPerMs * (evCall[1].ms + 1)

C11_Witness ==
    /\ handler = "mic"
    /\ turnBytes = 2 * 24
    /\ evCall = <<Truncate("b2", 1)>>

\* C12: in the telephony handler a media frame never decreases the transport
\* clock: a frame with a lower timestamp than the clock leaves it unchanged.
C12_MediaStep ==
    (handler = "twilio" /\ nFrames' = nFrames + 1 /\ curFrame'.kind = "media")
        => latest_media_timestamp' >= latest_media_timestamp

C12_ClockNeverDecreases == [][C12_MediaStep]_vars

\* C13: nothing is written to an upstream connection that is not open (no
\* truncate, no audio, no context message), and a send_truncate call made while
\* the connection is not open writes nothing and raises nothing: the handler goes
\* on, in the same step, to the stop_audio or clear write (which ends the pump
\* only when the client is gone).
C13_WriteStep ==
    /\ (nEvents' = nEvents + 1 /\ evUp' /= <<>>) => ws = "OPEN"
    /\ (nFrames' = nFrames + 1 /\ inUp') => ws = "OPEN"
    /\ (ragUp' /= ragUp /\ ragUp' /= <<>>) => ws = "OPEN"
    /\ (nEvents' = nEvents + 1 /\ evCall' /= <<>> /\ ws /= "OPEN")
           => /\ evUp' = <<>>
              /\ IF transport = "CONNECTED"
                 THEN /\ outPc' \in {"m_stop", "t_clear"}
                      /\ Len(evOut') = 1
                      /\ evOut'[1].kind \in {"stop_audio", "clear"}
                 ELSE outPc' = "done" /\ evOut' = <<>>

C13_SendsGuardedByLiveness == [][C13_WriteStep]_vars

C13_Witness ==
    /\ curEv.type = "speech_started"
    /\ evCall /= <<>>
    /\ evUp = <<>>
    /\ evOut /= <<>>
    /\ outPc = "wait"

\* C14: a transcription-completed event is yielded to the pump exactly once
\* whatever the context lookup gave, the lookup never ends the event sequence,
\* and a context message is written upstream only when the lookup found a
\* context.
C14_YieldedOnce ==
    curEv.type = "transcript"
        => /\ evYield = (IF outPc \in {"rag_lookup", "rag_send"} THEN 0 ELSE 1)
           /\ ragOutcome /= "context" => ragUp = <<>>

C14_LookupStep ==
    /\ (outPc = "rag_lookup" /\ outPc' /= outPc)
        => \/ outPc' = "wait" /\ evYield' = 1
           \/ outPc' = "rag_send" /\ ragOutcome' = "context" /\ ragUp' /= <<>>
    /\ (outPc = "rag_send" /\ outPc' /= outPc) => (outPc' = "wait" /\ evYield' = 1)

C14_LookupFailureSwallowed == []C14_YieldedOnce /\ [][C14_LookupStep]_vars

C14_Witness ==
    /\ curEv.type = "transcript"
    /\ ragOutcome = "search_failed"
    /\ evYield = 1
    /\ outPc = "wait"
    /\ ws = "OPEN"

\* C15: an audio delta whose payload cannot be decoded, taken while both sockets
\* are open, does not end the outbound pump.
C15_ErrorIsolatedToEvent ==
    (curEv.type = "delta" /\ ~Decodes(curEv) /\ transport = "CONNECTED" /\ ws = "OPEN")
        => outPc /= "done"

\* C16: an inbound frame that cannot be parsed is dropped: it does not end the
\* inbound pump and it does not end the handler.
C16_BadFrameDropped ==
    curFrame.kind \in BadFrames => (inEnd /= "error" /\ hPc /= "raised")

\* C17: the upstream connection is made at most once, from the accepted state;
\* when connecting fails no pump starts and nothing is relayed; a connection
\* that was lost is never opened again.
C17_NoPumpWithoutUpstream ==
    ws = "NONE" => /\ inPc = "off" /\ outPc = "off"
                   /\ nEvents = 0 /\ nFrames = 0
                   /\ evOut = <<>> /\ ~inUp

C17_ConnectStep ==
    /\ (ws' = "OPEN" /\ ws /= "OPEN") => (ws = "NONE" /\ hPc = "accepted")
    /\ ws /= "NONE" => ws' /= "NONE"
    /\ hPc /= "accepted" => hPc' /= "accepted"

C17_ConnectedAtMostOnce == []C17_NoPumpWithoutUpstream /\ [][C17_ConnectStep]_vars

C17_Witness ==
    /\ hPc = "raised"
    /\ ws = "NONE"
    /\ inPc = "off"
    /\ outPc = "off"

\* C18: a stop_audio or clear command is written to the transport only in the
\* handling of a speech_started event in which send_truncate has been called
\* before, for the item in flight and with the elapsed ms computed for it.
C18_StopOnlyAfterTruncateCall ==
    \A i \in 1..Len(evOut) :
        evOut[i].kind \in {"stop_audio", "clear"}
            => /\ curEv.type = "speech_started"
               /\ evCall /= <<>>
               /\ evItem /= NoItem
               /\ evCall[1].item = evItem
               /\ handler = "mic" => evCall[1].ms = evOut[i].n
               /\ handler = "twilio" => evCall[1].ms = evClock - anchorClock

C18_Witness ==
    /\ handler = "mic"
    /\ outPc = "m_stop"
    /\ evCall /= <<>>
    /\ evOut = <<Out("stop_audio", NoItem, evCall[1].ms)>>

\* C19: in the microphone handler an audio message that carries an item id is
\* written only after the response_start of that item's turn: in the event that
\* starts the turn the response_start comes first, the audio second.
C19_StartBeforeAudio ==
    handler = "mic" =>
        \A i \in 1..Len(evOut) :
            (evOut[i].kind = "audio" /\ evOut[i].item /= NoItem)
                => /\ startSent = evOut[i].item
                   /\ evNewTurn = "yes" =>
                          (i = 2 /\ evOut[1] = Out("response_start", evOut[i].item, 0))

C19_Witness ==
    /\ handler = "mic"
    /\ evNewTurn = "yes"
    /\ evOut = <<Out("response_start", "a1", 0), Out("audio", "a1", 24)>>

\* C20: in the telephony handler every media frame sets the transport clock to
\* the frame's timestamp, whether the upstream connection is open or not.
C20_MediaAdvancesClock ==
    (handler = "twilio" /\ curFrame.kind = "media")
        => latest_media_timestamp = curFrame.ts

\* C27: once the connection handler has ended, by returning from gather or
\* with an exception (of a pump, or of the connection attempt), the upstream
\* connection is not open.
C27_NoOpenUpstreamAfterHandler ==
    hPc \in {"returned", "raised"} => ws /= "OPEN"

C27_Witness ==
    /\ hPc = "raised"
    /\ inEnd = "error"
    /\ ws = "CLOSED"
    /\ outPc = "wait"

\* C26 as claimed: in the telephony handler a truncate call is made, and a clear
\* is written, only in a state where a marker is pending and the anchor is set;
\* a speech_started event taken with an empty marker queue makes no truncate
\* call, writes nothing and leaves the item id and the anchor unchanged.
C26_IssuedStep ==
    /\ (handler = "twilio" /\ nEvents' = nEvents + 1 /\ evCall' /= <<>>)
        => (mark_queue /= <<>> /\ response_start_timestamp_twilio /= None)
    /\ (handler = "twilio" /\ evOut' /= evOut /\ evOut' /= <<>>
            /\ evOut'[Len(evOut')].kind = "clear")
        => (mark_queue /= <<>> /\ response_start_timestamp_twilio /= None)
    /\ (handler = "twilio" /\ nEvents' = nEvents + 1
            /\ curEv'.type = "speech_started" /\ mark_queue = <<>>)
        => /\ evCall' = <<>> /\ evUp' = <<>> /\ evOut' = <<>>
           /\ UNCHANGED <<last_assistant_item, response_start_timestamp_twilio>>

C26_IssuedOnlyWhilePending == [][C26_IssuedStep]_vars

\* C26 as amended: in the telephony handler the truncate call is made only for a
\* speech_started event taken while a marker is pending and the anchor is set,
\* and a clear is written only in the handling of such an event, after the call
\* (by then the queue may be empty or the anchor unset); a speech_started event
\* taken with an empty marker queue makes no truncate call, writes nothing and
\* leaves the item id, the anchor and the queue unchanged.
C26_ClearNeedsTruncateCall ==
    (handler = "twilio" /\ evCall = <<>>)
        => \A i \in 1..Len(evOut) : evOut[i].kind /= "clear"

C26_SpeechStartedStep ==
    /\ (handler = "twilio" /\ nEvents' = nEvents + 1 /\ curEv'.type = "speech_started")
        => /\ evCall' /= <<>>
                => (mark_queue /= <<>> /\ response_start_timestamp_twilio /= None)
           /\ mark_queue = <<>>
                => /\ evCall' = <<>> /\ evUp' = <<>> /\ evOut' = <<>>
                   /\ outPc' = "wait"
                   /\ UNCHANGED <<last_assistant_item, response_start_timestamp_twilio,
                                  mark_queue>>
    /\ (handler = "twilio" /\ evOut' /= evOut /\ evOut' /= <<>>
            /\ evOut'[Len(evOut')].kind = "clear")
        => /\ evCall' /= <<>>
           /\ curEv'.type = "speech_started"
           /\ evOut' = <<Out("clear", stream_sid, 0)>>

C26_InterruptNeedsPendingMarker ==
    []C26_ClearNeedsTruncateCall /\ [][C26_SpeechStartedStep]_vars

\* The clear of an interruption was written with the upstream open, and the
\* marker it was decided on has been acknowledged since: the queue is empty
\* before the reset.
C26_Witness ==
    /\ handler = "twilio"
    /\ curEv.type = "speech_started"
    /\ evCall /= <<>>
    /\ evUp /= <<>>
    /\ evOut = <<Out("clear", stream_sid, 0)>>
    /\ outPc = "t_clear"
    /\ last_assistant_item /= NoItem
    /\ mark_queue = <<>>

\* C22: in the telephony handler a delta whose media frame was written with the
\* stream id set is followed, once its handling has completed, by exactly one
\* mark frame, and the marker queue grows only by one marker appended at the
\* back right after a mark frame was written; while the stream id is unset no
\* mark is written or enqueued; the microphone handler never writes or enqueues
\* a marker.
C22_MarksInEvent ==
    /\ handler = "mic"
        => /\ mark_queue = <<>>
           /\ \A i \in 1..Len(evOut) : evOut[i].kind /= "mark"
    /\ (handler = "twilio" /\ stream_sid = NoSid)
        => /\ mark_queue = <<>>
           /\ \A i \in 1..Len(evOut) : evOut[i].kind /= "mark"
    /\ \A i \in 1..Len(evOut) :
          evOut[i].kind = "mark"
              => /\ curEv.type = "delta"
                 /\ Len(evOut) = 2 /\ i = 2
                 /\ evOut[1].kind = "media"
                 /\ evOut[2] = Out("mark", stream_sid, 0)
    /\ (handler = "twilio" /\ curEv.type = "delta" /\ outPc = "wait"
            /\ evOut /= <<>> /\ evOut[1].item /= NoSid)
        => (Len(evOut) = 2 /\ evOut[2].kind = "mark")

C22_EnqueueStep ==
    /\ Len(mark_queue') > Len(mark_queue)
        => /\ outPc = "t_mark"
           /\ evOut[Len(evOut)].kind = "mark"
    /\ (outPc = "t_mark" /\ outPc' /= "t_mark")
        => /\ mark_queue' = Append(mark_queue, "responsePart")
           /\ outPc' = "wait"

C22_OneMarkPerDelta ==
    []C22_MarksInEvent /\ [][C22_EnqueueStep]_vars

C22_Witness ==
    /\ handler = "twilio"
    /\ curEv.type = "delta"
    /\ outPc = "wait"
    /\ Len(evOut) = 2
    /\ evOut[2].kind = "mark"
    /\ Len(mark_queue) = 2

\* The audio messages (audio of the microphone handler, media of the telephony
\* handler) written so far in the handling of curEv.
AudioWritten == SelectSeq(evOut, LAMBDA o : o.kind \in {"audio", "media"})

\* C21: the audio written to the transport follows the deltas received: an
\* audio message is written only in the handling of a delta, at most once, and
\* carries that delta's payload (and, in the microphone handler, its item id);
\* the outbound pump takes the next event only after the audio of a decodable
\* delta was written, and a delta whose audio was not written ends the pump, so
\* that no delta is skipped, duplicated or overtaken.
C21_AudioOfEvent ==
    /\ Len(AudioWritten) <= 1
    /\ AudioWritten /= <<>>
        => /\ curEv.type = "delta"
           /\ Decodes(curEv)
           /\ AudioWritten[1].n = curEv.len
           /\ handler = "mic" => AudioWritten[1].item = curEv.item
    /\ (curEv.type = "delta" /\ outPc = "wait") => Len(AudioWritten) = 1

C21_NextEventStep ==
    nEvents' /= nEvents
        => /\ nEvents' = nEvents + 1
           /\ outPc = "wait"
           /\ curEv.type = "delta" => Len(AudioWritten) = 1

C21_AudioIsPrefixOfDeltas ==
    []C21_AudioOfEvent /\ [][C21_NextEventStep]_vars

C21_Witness ==
    /\ handler = "mic"
    /\ nEvents = 3
    /\ curEv.type = "delta"
    /\ curEv.item \in truncated
    /\ evNewTurn = "yes"
    /\ outPc = "wait"
    /\ evOut = <<Out("response_start", curEv.item, 0), Out("audio", curEv.item, 24)>>

\* C23: the handling of a mark acknowledgment removes the marker at the front
\* of the queue when there is one and leaves an empty queue empty; it changes no
\* other field of the session, writes nothing and does not end the inbound pump.
C23_MarkAckPopsFront ==
    (nFrames' = nFrames + 1 /\ owed' = owed - 1)
        => /\ mark_queue' = IF mark_queue = <<>> THEN <<>> ELSE Tail(mark_queue)
           /\ UNCHANGED <<last_assistant_item, stream_sid, latest_media_timestamp,
                          response_start_timestamp_twilio, ws, transport, inPc, inEnd,
                          outPc, evUp, evOut, evCall>>

C23_MarkAckStep == [][C23_MarkAckPopsFront]_vars

C23_Witness ==
    /\ handler = "twilio"
    /\ nFrames = 2
    /\ owed = 0
    /\ nEvents = 2
    /\ curEv.type = "speech_started"
    /\ evCall /= <<>>
    /\ outPc = "wait"
    /\ mark_queue = <<>>
    /\ inEnd = "running"

\* C24: in the telephony handler the marker queue never holds more markers
\* than mark frames were written to the transport and not yet acknowledged.
C24_QueueWithinOwedMarks ==
    handler = "twilio" => Len(mark_queue) <= owed

\* C25: a truncate message written upstream never names an item that an
\* earlier truncate message of the session named.
C25_TruncatedOnce ==
    [][(nEvents' = nEvents + 1 /\ evUp' /= <<>>)
           => evUp'[1].item \notin truncated]_vars

====
